---- MODULE Spec2Model ----
(***************************************************************************)
(* Model of the deployment validator of Project Chimera                    *)
(* (tools/scripts/validate_deployment.py): the list of recorded            *)
(* ValidationResults, the validate_* steps that extend it, and             *)
(* assess_system_health, which reduces it to a SystemHealth verdict.       *)
(*                                                                         *)
(* Spec is the life cycle of one                                            *)
(* DeploymentValidator object driven the way main() drives it (smoke test, *)
(* full validation, report), possibly several times on the same object.    *)
(* SpecAgg checks assess_system_health as a function of its input: the     *)
(* recorded results are drawn from every bounded batch over the scopes     *)
(* and statuses, and the one action applies the aggregation.  SpecPerm is  *)
(* the same over the batches whose rearrangements are compared.            *)
(*                                                                         *)
(* The second half models the performance optimizer                        *)
(* (tools/scripts/optimize_performance.py).  SpecAnalyze is the first half *)
(* of run_optimization_cycle: collect_metrics, then analyze_performance,   *)
(* for every loaded configuration and every draw of the metrics.           *)
(* SpecPlan checks generate_optimization_plan over every bounded batch of   *)
(* recommendations, SpecApply the planning and repeated applying of one.   *)
(* SpecCycle is run_optimization_cycle as main runs it, with or without    *)
(* auto_apply; SpecCross, SpecPhase and SpecRisk draw the inputs of the     *)
(* cross-layer analysis, the phase grouping and the risk assessment.        *)
(*                                                                         *)
(* The last part is main of the deployer (tools/scripts/deploy_chimera.py)  *)
(* up to the construction of its ChimeraDeployer: SpecDeploy.               *)
(***************************************************************************)
EXTENDS Integers, Sequences, FiniteSets, TLC

VARIABLES
    layers,              \* keys of self.config["layers"], in dict order
    validation_results,  \* self.validation_results
    system_health,       \* self.system_health: <<>> is None, <<v>> a verdict
    health,              \* verdict last returned by assess_system_health
    report,              \* last value of generate_validation_report, <<>> if none
    pc,                  \* position of the caller (main / run_full_validation)
    run_results,         \* results returned by the validate_* calls of the current run
    assess_calls,        \* assess_system_health calls since validation_results last changed
    target_layers,       \* the layers argument of run_optimization_cycle
    opt_config,          \* PerformanceOptimizer.config
    baselines,           \* PerformanceOptimizer.baselines
    metrics,             \* the metrics list of the current cycle
    metrics_history,     \* PerformanceOptimizer.metrics_history
    recommendations,     \* PerformanceOptimizer.recommendations (the objects themselves)
    plan,                \* the plan of the current cycle: <<>> is none yet
    application_results, \* dict returned by the last apply_optimizations: <<>> is none yet
    opc,                 \* position of run_optimization_cycle
    cycle_output,        \* what the cycle has reported, saved and returned: <<>> is nothing yet
    deploy_args,         \* the arguments main of deploy_chimera.py has parsed: <<>> is none
    deployer,            \* the ChimeraDeployer of main: <<>> is none, <<d>> the object
    dpc                  \* position of main of deploy_chimera.py

validator_vars ==
    <<layers, validation_results, system_health, health, report, pc, run_results,
      assess_calls>>

optimizer_vars ==
    <<target_layers, opt_config, baselines, metrics, metrics_history, recommendations,
      plan, application_results, opc, cycle_output>>

deployer_vars == <<deploy_args, deployer, dpc>>

vars == <<validator_vars, optimizer_vars, deployer_vars>>

----------------------------------------------------------------------------
(* Bounds *)

\* number of layers of the loaded configuration under Spec
NumLayers == 2
\* number of layers of the loaded configuration under SpecAgg
AggLayers == 4
\* entries modelled of each hard-coded check list (layer_pairs,
\* security_checks, integration_tests, workflows)
NumChecks == 1
\* cap on len(self.validation_results) under Spec
MaxResults == 14
\* longest batch of results drawn under SpecAgg
MaxBatch == 3
\* number of layers and longest batch of results drawn under SpecPerm
PermLayers == 2
PermBatch == 3
\* value at which the count of assess_calls stops
MaxAssessCalls == 2
\* number of target layers of an optimization cycle under SpecAnalyze
NumOptLayers == 2
\* longest batch of recommendations drawn under SpecPlan
MaxRecs == 3
\* longest batch of recommendations drawn under SpecApply
MaxApplied == 2
\* number of target layers of an optimization cycle under SpecCycle
CycleLayers == 1
\* longest batch of metrics drawn under SpecCross
MaxMetrics == 3
\* longest batch of recommendations drawn under SpecPhase
MaxPhased == 2
\* longest batch of recommendations drawn under SpecRisk
MaxRisk == 6

----------------------------------------------------------------------------
(* Data *)

LayerNames ==
    <<"layer1", "layer2", "layer3", "layer4", "layer5", "layer6", "layer7", "layer8">>

\* the first n layers of the default configuration, as the key order of the dict
ConfigLayers(n) == SubSeq(LayerNames, 1, IF n < Len(LayerNames) THEN n ELSE Len(LayerNames))

Statuses == {"pass", "fail", "warning", "error"}

SeqToSet(s) == {s[i] : i \in DOMAIN s}

\* ValidationResult; component, duration, timestamp and details are not read
\* by the aggregation and are left out.  message is the f-string's template
\* and its subject, without the measured floats.
ValidationResult(layer, check_type, status, message) ==
    [layer |-> layer, check_type |-> check_type, status |-> status, message |-> message]

None == <<>>

----------------------------------------------------------------------------
(* assess_system_health *)

IsFailed(r) == r.status \in {"fail", "error"}

IsWarning(r) == r.status = "warning"

IsPass(r) == r.status = "pass"

\* f"Layer {layer}: {r.message}"
IssueText(layer, r) == <<"Layer", layer, r.message>>

IssueTexts(layer, rs) == [i \in DOMAIN rs |-> IssueText(layer, rs[i])]

\* [r for r in self.validation_results if r.layer == layer]
LayerResults(results, layer) == SelectSeq(results, LAMBDA r : r.layer = layer)

EmptyAnalysis == [layer_status |-> <<>>, critical_issues |-> <<>>, warnings |-> <<>>]

\* body of the loop over the configured layers, for one layer
AnalyzeLayer(acc, layer, results) ==
    LET layer_results == LayerResults(results, layer)
        failed == SelectSeq(layer_results, IsFailed)
        warned == SelectSeq(layer_results, IsWarning)
        failed_checks == Len(failed)
        warning_checks == Len(warned)
    IN  IF Len(layer_results) = 0 THEN acc
        ELSE IF failed_checks > 0 THEN
            [acc EXCEPT !.layer_status = (layer :> "unhealthy") @@ @,
                        !.critical_issues = @ \o IssueTexts(layer, failed)]
        ELSE IF warning_checks > 0 THEN
            [acc EXCEPT !.layer_status = (layer :> "degraded") @@ @,
                        !.warnings = @ \o IssueTexts(layer, warned)]
        ELSE
            [acc EXCEPT !.layer_status = (layer :> "healthy") @@ @]

\* AnalyzeLayers whose loop body lets the last result of a layer decide its status
RECURSIVE AnalyzeLayers_LastResult(_, _, _, _)
AnalyzeLayers_LastResult(keys, results, i, acc) ==
    IF i > Len(keys) THEN acc
    ELSE LET layer_results == LayerResults(results, keys[i])
             last == IF Len(layer_results) = 0 THEN <<>>
                     ELSE <<layer_results[Len(layer_results)]>>
         IN  AnalyzeLayers_LastResult(keys, results, i + 1,
                                      AnalyzeLayer(acc, keys[i], last))

RECURSIVE AnalyzeLayers(_, _, _, _)
\* for layer in self.config["layers"].keys(): ...
AnalyzeLayers(keys, results, i, acc) ==
    IF i > Len(keys) THEN acc
    ELSE AnalyzeLayers(keys, results, i + 1, AnalyzeLayer(acc, keys[i], results))

CountStatus(layer_status, s) ==
    Cardinality({l \in DOMAIN layer_status : layer_status[l] = s})

\* OverallStatus with the degraded threshold off by one (>= 2 for > 2)
OverallStatus_AtLeastTwo(layer_status) ==
    LET unhealthy_layers == CountStatus(layer_status, "unhealthy")
        degraded_layers == CountStatus(layer_status, "degraded")
    IN  IF unhealthy_layers > 0 THEN "unhealthy"
        ELSE IF degraded_layers >= 2 THEN "degraded"
        ELSE "healthy"

\* the overall status, from the per-layer status map
OverallStatus(layer_status) ==
    LET unhealthy_layers == CountStatus(layer_status, "unhealthy")
        degraded_layers == CountStatus(layer_status, "degraded")
    IN  IF unhealthy_layers > 0 THEN "unhealthy"
        ELSE IF degraded_layers > 2 THEN "degraded"
        ELSE "healthy"

\* PerformanceScore that takes every result that did not fail for a success
PerformanceScore_NotFailed(results) ==
    LET total_checks == Len(results)
        successful_checks == Len(SelectSeq(results, LAMBDA r : ~IsFailed(r)))
    IN  IF total_checks > 0 THEN [num |-> successful_checks, den |-> total_checks]
        ELSE [num |-> 0, den |-> 1]

\* successful_checks / total_checks if total_checks > 0 else 0.0, as the
\* exact fraction num/den
PerformanceScore(results) ==
    LET total_checks == Len(results)
        successful_checks == Len(SelectSeq(results, IsPass))
    IN  IF total_checks > 0 THEN [num |-> successful_checks, den |-> total_checks]
        ELSE [num |-> 0, den |-> 1]

\* the SystemHealth that assess_system_health returns (without its timestamp)
SystemHealth(keys, results) ==
    LET a == AnalyzeLayers(keys, results, 1, EmptyAnalysis)
    IN  [overall_status |-> OverallStatus(a.layer_status),
         layer_status |-> a.layer_status,
         critical_issues |-> a.critical_issues,
         warnings |-> a.warnings,
         performance_score |-> PerformanceScore(results)]

----------------------------------------------------------------------------
(* The individual checks.  The simulated probe's random draw is the         *)
(* parameter ok.                                                           *)

check_endpoint_health(layer, ok) ==
    IF ok THEN ValidationResult(layer, "health_check", "pass",
                                <<"Health check passed for", layer>>)
    ELSE ValidationResult(layer, "health_check", "fail",
                          <<"Health check failed for", layer>>)

test_layer_connectivity(pair, ok) ==
    IF ok THEN ValidationResult("system", "connectivity", "pass",
                                <<"Connectivity test passed", pair>>)
    ELSE ValidationResult("system", "connectivity", "fail",
                          <<"Connectivity test failed", pair>>)

\* the module never imports random, and test_response_time has no local
\* import: random.uniform raises NameError inside the try block, so the
\* except branch builds the result on every call
test_response_time(layer) ==
    ValidationResult(layer, "performance", "error",
                     <<"Response time test error", "name 'random' is not defined">>)

test_throughput(layer, ok) ==
    IF ok THEN ValidationResult(layer, "performance", "pass", <<"Throughput OK", layer>>)
    ELSE ValidationResult(layer, "performance", "warning", <<"Low throughput", layer>>)

test_resource_usage(layer, ok) ==
    IF ok THEN ValidationResult(layer, "performance", "pass", <<"Resource usage OK", layer>>)
    ELSE ValidationResult(layer, "performance", "warning", <<"Resource issues", layer>>)

perform_security_check(check_name, ok) ==
    IF ok THEN ValidationResult("system", "security", "pass",
                                <<"Security check passed", check_name>>)
    ELSE ValidationResult("system", "security", "warning",
                          <<"Security check warning", check_name>>)

test_integration_flow(test_name, ok) ==
    IF ok THEN ValidationResult("system", "integration", "pass",
                                <<"Integration test passed", test_name>>)
    ELSE ValidationResult("system", "integration", "fail",
                          <<"Integration test failed", test_name>>)

test_end_to_end_workflow(workflow_name, ok) ==
    IF ok THEN ValidationResult("system", "e2e", "pass",
                                <<"E2E workflow passed", workflow_name>>)
    ELSE ValidationResult("system", "e2e", "fail",
                          <<"E2E workflow failed", workflow_name>>)

\* the hard-coded check lists, cut to their first NumChecks entries
Modelled(list) == SubSeq(list, 1, IF NumChecks < Len(list) THEN NumChecks ELSE Len(list))

layer_pairs ==
    Modelled(<<"layer1_to_layer2", "layer2_to_layer3", "layer3_to_layer4",
               "layer4_to_layer5", "layer5_to_layer6", "layer6_to_layer7",
               "layer7_to_layer8", "layer1_to_layer4", "layer2_to_layer5">>)

security_checks ==
    Modelled(<<"ssl_certificates", "authentication", "authorization",
               "network_policies", "secrets_management", "audit_logging">>)

integration_tests ==
    Modelled(<<"layer1_layer2", "layer2_layer3", "layer3_layer4", "layer4_layer5",
               "layer5_layer6", "layer6_layer7", "layer7_layer8">>)

workflows ==
    Modelled(<<"autonomous_optimization", "failure_recovery", "resource_scaling",
               "performance_tuning">>)

\* draws of one simulated probe per entry of a list
Draws(list) == [DOMAIN list -> BOOLEAN]

\* number of results one run_full_validation records
FullRunSize ==
    3 * Len(layers) + Len(layers) + Len(layer_pairs) + Len(security_checks)
      + Len(integration_tests) + Len(workflows)

----------------------------------------------------------------------------
(* Operations of DeploymentValidator *)

TypeOK ==
    /\ pc \in {"none", "idle", "smoke", "health_checks", "connectivity", "performance",
               "security", "integration", "end_to_end", "assess", "verdict"}
    /\ Len(validation_results) <= MaxResults
    /\ Len(system_health) <= 1
    /\ Len(health) <= 1

\* no PerformanceOptimizer has been built
NoOptimizer ==
    /\ target_layers = <<>>
    /\ opt_config = <<>>
    /\ baselines = <<>>
    /\ metrics = <<>>
    /\ metrics_history = <<>>
    /\ recommendations = <<>>
    /\ plan = None
    /\ application_results = None
    /\ cycle_output = None
    /\ opc = "none"

\* main of deploy_chimera.py is not running
NoDeployer ==
    /\ deploy_args = <<>>
    /\ deployer = <<>>
    /\ dpc = "none"

CountCall == IF assess_calls < MaxAssessCalls THEN assess_calls + 1 ELSE assess_calls

\* __init__, with the default configuration cut to NumLayers layers
Init ==
    /\ layers = ConfigLayers(NumLayers)
    /\ validation_results = <<>>
    /\ system_health = None
    /\ health = None
    /\ report = <<>>
    /\ pc = "idle"
    /\ run_results = <<>>
    /\ assess_calls = 0
    /\ NoOptimizer
    /\ NoDeployer

Resting == pc \in {"idle", "verdict"}

\* self.validation_results.extend(results); return results
Record(results) ==
    /\ validation_results' = validation_results \o results
    /\ run_results' = IF Resting THEN results ELSE run_results \o results
    /\ assess_calls' = 0

\* validate_health_checks: called by main (smoke test, check health), which
\* starts a run, or as the first step of run_full_validation
validate_health_checks ==
    /\ \/ Resting /\ Len(validation_results) + Len(layers) <= MaxResults
       \/ pc = "health_checks"
    /\ \E ok \in Draws(layers) :
          Record([i \in DOMAIN layers |-> check_endpoint_health(layers[i], ok[i])])
    /\ pc' = IF Resting THEN "smoke" ELSE "connectivity"
    /\ UNCHANGED <<layers, system_health, health, report>> /\ UNCHANGED optimizer_vars /\ UNCHANGED deployer_vars

validate_connectivity ==
    /\ pc = "connectivity"
    /\ \E ok \in Draws(layer_pairs) :
          Record([i \in DOMAIN layer_pairs |-> test_layer_connectivity(layer_pairs[i], ok[i])])
    /\ pc' = "performance"
    /\ UNCHANGED <<layers, system_health, health, report>> /\ UNCHANGED optimizer_vars /\ UNCHANGED deployer_vars

validate_performance ==
    /\ pc = "performance"
    /\ \E okt \in Draws(layers), okr \in Draws(layers) :
          Record([i \in DOMAIN layers |-> test_response_time(layers[i])]
                 \o [i \in DOMAIN layers |-> test_throughput(layers[i], okt[i])]
                 \o [i \in DOMAIN layers |-> test_resource_usage(layers[i], okr[i])])
    /\ pc' = "security"
    /\ UNCHANGED <<layers, system_health, health, report>> /\ UNCHANGED optimizer_vars /\ UNCHANGED deployer_vars

validate_security ==
    /\ pc = "security"
    /\ \E ok \in Draws(security_checks) :
          Record([i \in DOMAIN security_checks |->
                     perform_security_check(security_checks[i], ok[i])])
    /\ pc' = "integration"
    /\ UNCHANGED <<layers, system_health, health, report>> /\ UNCHANGED optimizer_vars /\ UNCHANGED deployer_vars

validate_integration ==
    /\ pc = "integration"
    /\ \E ok \in Draws(integration_tests) :
          Record([i \in DOMAIN integration_tests |->
                     test_integration_flow(integration_tests[i], ok[i])])
    /\ pc' = "end_to_end"
    /\ UNCHANGED <<layers, system_health, health, report>> /\ UNCHANGED optimizer_vars /\ UNCHANGED deployer_vars

validate_end_to_end_workflow ==
    /\ pc = "end_to_end"
    /\ \E ok \in Draws(workflows) :
          Record([i \in DOMAIN workflows |-> test_end_to_end_workflow(workflows[i], ok[i])])
    /\ pc' = "assess"
    /\ UNCHANGED <<layers, system_health, health, report>> /\ UNCHANGED optimizer_vars /\ UNCHANGED deployer_vars

\* entry of run_full_validation, up to its first await
run_full_validation ==
    /\ Resting
    /\ Len(validation_results) + FullRunSize <= MaxResults
    /\ pc' = "health_checks"
    /\ run_results' = <<>>
    /\ UNCHANGED <<layers, validation_results, system_health, health, report, assess_calls>> /\ UNCHANGED optimizer_vars /\ UNCHANGED deployer_vars

\* self.system_health = self.assess_system_health(); return self.system_health
run_full_validation_assess ==
    /\ pc = "assess"
    /\ system_health' = <<SystemHealth(layers, validation_results)>>
    /\ health' = system_health'
    /\ pc' = "verdict"
    /\ assess_calls' = CountCall
    /\ UNCHANGED <<layers, validation_results, report, run_results>> /\ UNCHANGED optimizer_vars /\ UNCHANGED deployer_vars

\* assess_system_health that consumes the recorded results
assess_system_health_Draining ==
    /\ pc \in {"idle", "smoke", "verdict"}
    /\ health' = <<SystemHealth(layers, validation_results)>>
    /\ validation_results' = <<>>
    /\ pc' = IF pc = "smoke" THEN "verdict" ELSE pc
    /\ assess_calls' = CountCall
    /\ UNCHANGED <<layers, system_health, report, run_results>> /\ UNCHANGED optimizer_vars /\ UNCHANGED deployer_vars

\* assess_system_health that also stores the verdict in self.system_health
assess_system_health_Storing ==
    /\ pc \in {"idle", "smoke", "verdict"}
    /\ health' = <<SystemHealth(layers, validation_results)>>
    /\ system_health' = health'
    /\ pc' = IF pc = "smoke" THEN "verdict" ELSE pc
    /\ assess_calls' = CountCall
    /\ UNCHANGED <<layers, validation_results, report, run_results>> /\ UNCHANGED optimizer_vars /\ UNCHANGED deployer_vars

\* health = validator.assess_system_health(), as main calls it after
\* validate_health_checks, or on its own
assess_system_health ==
    /\ pc \in {"idle", "smoke", "verdict"}
    /\ health' = <<SystemHealth(layers, validation_results)>>
    /\ pc' = IF pc = "smoke" THEN "verdict" ELSE pc
    /\ assess_calls' = CountCall
    /\ UNCHANGED <<layers, validation_results, system_health, report, run_results>> /\ UNCHANGED optimizer_vars /\ UNCHANGED deployer_vars

\* the report text, reduced to its executive summary
ValidationReport ==
    IF system_health = None THEN <<"No validation data available">>
    ELSE <<"# Project Chimera Deployment Validation Report",
           system_health[1].overall_status,
           system_health[1].performance_score,
           Cardinality(DOMAIN system_health[1].layer_status),
           Len(validation_results)>>

generate_validation_report ==
    /\ Resting
    /\ report' = ValidationReport
    /\ UNCHANGED <<layers, validation_results, system_health, health, pc, run_results,
                   assess_calls>> /\ UNCHANGED optimizer_vars /\ UNCHANGED deployer_vars

Next ==
    \/ validate_health_checks
    \/ validate_connectivity
    \/ validate_performance
    \/ validate_security
    \/ validate_integration
    \/ validate_end_to_end_workflow
    \/ run_full_validation
    \/ run_full_validation_assess
    \/ assess_system_health
    \/ generate_validation_report

Spec == Init /\ [][Next]_vars

----------------------------------------------------------------------------
(* assess_system_health as a function of the recorded results *)

Scopes == SeqToSet(ConfigLayers(AggLayers)) \cup {"system"}

\* a batch of n results with the given scopes and statuses; the message of
\* each result is its own
Batch(n, scope, status) ==
    [i \in 1..n |-> ValidationResult(scope[i], "check", status[i], <<"finding", i>>)]

InitAgg ==
    /\ layers = ConfigLayers(AggLayers)
    /\ \E n \in 0..MaxBatch :
          \E scope \in [1..n -> Scopes], status \in [1..n -> Statuses] :
             validation_results = Batch(n, scope, status)
    /\ system_health = None
    /\ health = None
    /\ report = <<>>
    /\ pc = "idle"
    /\ run_results = validation_results
    /\ assess_calls = 0
    /\ NoOptimizer
    /\ NoDeployer

NextAgg == assess_system_health

SpecAgg == InitAgg /\ [][NextAgg]_vars

\* the recorded results of a validator over n_layers layers: every batch of
\* at most max_batch results over its layers and "system"
InitDrawn(n_layers, max_batch) ==
    /\ layers = ConfigLayers(n_layers)
    /\ \E n \in 0..max_batch :
          \E scope \in [1..n -> SeqToSet(ConfigLayers(n_layers)) \cup {"system"}],
             status \in [1..n -> Statuses] :
             validation_results = Batch(n, scope, status)
    /\ system_health = None
    /\ health = None
    /\ report = <<>>
    /\ pc = "idle"
    /\ run_results = validation_results
    /\ assess_calls = 0
    /\ NoOptimizer
    /\ NoDeployer

\* assess_system_health over the batches whose rearrangements are compared
InitPerm == InitDrawn(PermLayers, PermBatch)

NextPerm == assess_system_health

SpecPerm == InitPerm /\ [][NextPerm]_vars

----------------------------------------------------------------------------
(* The performance optimizer: data.  Ratios (cpu, memory, thresholds) are  *)
(* in hundredths, times in hundredths of a second, error rates in          *)
(* ten-thousandths, expected improvements in hundredths.                   *)

NoValidator ==
    /\ layers = <<>>
    /\ validation_results = <<>>
    /\ system_health = None
    /\ health = None
    /\ report = <<>>
    /\ pc = "none"
    /\ run_results = <<>>
    /\ assess_calls = 0

\* the layers main() passes for --target all
OptLayerNames ==
    <<"layer1", "layer2", "layer3", "layer4", "layer5", "layer6", "layer7", "layer8">>

TargetLayers(n) == SubSeq(OptLayerNames, 1, n)

LayerIndex(layer) == CHOOSE i \in DOMAIN OptLayerNames : OptLayerNames[i] = layer

\* dict.get(key, default)
Get(dict, key, default) == IF key \in DOMAIN dict THEN dict[key] ELSE default

Restrict(dict, keys) == [k \in keys |-> dict[k]]

\* cpu_threshold, memory_threshold, response_time_threshold of layer1..layer8
TargetRows ==
    << <<70, 80, 100>>, <<60, 70, 200>>, <<50, 60, 150>>, <<80, 90, 50>>,
       <<70, 80, 300>>, <<80, 90, 500>>, <<70, 80, 400>>, <<60, 70, 200>> >>

TargetEntry(row) ==
    ("cpu_threshold" :> row[1]) @@ ("memory_threshold" :> row[2])
        @@ ("response_time_threshold" :> row[3])

DefaultTargets(n) ==
    [layer \in SeqToSet(TargetLayers(n)) |-> TargetEntry(TargetRows[LayerIndex(layer)])]

\* the config dict: targets is <<>> when the key is absent, <<table>> otherwise
OptConfig(targets, auto_apply) == [targets |-> targets, auto_apply |-> auto_apply]

get_default_config(n) == OptConfig(<<DefaultTargets(n)>>, FALSE)

\* what load_config can return: the defaults, or the content of the config
\* file, which may lack the entry of a layer, one key of an entry, or the
\* whole targets table
LoadedConfigs(n) ==
    LET t == DefaultTargets(n)
    IN  { get_default_config(n),
          OptConfig(<<Restrict(t, DOMAIN t \ {"layer1"})>>, FALSE),
          OptConfig(<<("layer1" :> Restrict(t["layer1"], DOMAIN t["layer1"] \ {"cpu_threshold"})) @@ t>>,
                    FALSE),
          OptConfig(None, FALSE) }

\* response_time, throughput, error_rate of layer1..layer8
BaselineRows ==
    << <<80, 1000, 100>>, <<150, 500, 200>>, <<120, 800, 100>>, <<30, 2000, 500>>,
       <<250, 300, 300>>, <<400, 100, 200>>, <<300, 150, 200>>, <<180, 400, 100>> >>

BaselineEntry(row) ==
    ("response_time" :> row[1]) @@ ("throughput" :> row[2]) @@ ("error_rate" :> row[3])

get_default_baselines(n) ==
    [layer \in SeqToSet(TargetLayers(n)) |-> BaselineEntry(BaselineRows[LayerIndex(layer)])]

\* the default of self.baselines.get(layer, {...})
FallbackBaseline == BaselineEntry(<<100, 500, 200>>)

\* what load_baselines can return: the defaults, or the content of the
\* baseline file: other figures, an entry that lacks a key, no entry for a layer
LoadedBaselines(n) ==
    LET b == get_default_baselines(n)
    IN  { b,
          ("layer1" :> BaselineEntry(<<100, 1000, 500>>))
              @@ ("layer2" :> BaselineEntry(<<300, 500, 200>>)) @@ b,
          ("layer1" :> Restrict(b["layer1"], {"throughput", "error_rate"})) @@ b,
          Restrict(b, DOMAIN b \ {"layer1"}) }

PerformanceMetrics(component, layer, cpu_usage, memory_usage, response_time, throughput, error_rate) ==
    [component |-> component, layer |-> layer, cpu_usage |-> cpu_usage,
     memory_usage |-> memory_usage, response_time |-> response_time,
     throughput |-> throughput, error_rate |-> error_rate]

OptimizationRecommendation(component, layer, issue, expected_improvement, implementation_effort, priority) ==
    [component |-> component, layer |-> layer, issue |-> issue,
     expected_improvement |-> expected_improvement,
     implementation_effort |-> implementation_effort,
     priority |-> priority, status |-> "pending"]

\* the draws of collect_layer_metrics: variance = random.uniform(0.8, 1.2),
\* cpu_usage = random.uniform(0.3, 0.9) * variance,
\* memory_usage = random.uniform(0.4, 0.8) * variance, and the factor
\* random.uniform(0.5, 1.5) of the error rate
Draw ==
    { d \in [variance : {80, 100, 120}, cpu_usage : {70, 80, 90},
             memory_usage : {60, 80, 90}, factor : {100, 120}] :
        /\ 30 * d.variance <= 100 * d.cpu_usage
        /\ 100 * d.cpu_usage <= 90 * d.variance
        /\ 40 * d.variance <= 100 * d.memory_usage
        /\ 100 * d.memory_usage <= 80 * d.variance }

\* collect_layer_metrics: the list of one PerformanceMetrics, or <<>> when
\* reading a key the baseline entry lacks raises KeyError
collect_layer_metrics(layer, d) ==
    LET base_metrics == Get(baselines, layer, FallbackBaseline)
    IN  IF {"response_time", "throughput", "error_rate"} \subseteq DOMAIN base_metrics
        THEN << PerformanceMetrics(layer \o "_service", layer, d.cpu_usage, d.memory_usage,
                                   (base_metrics["response_time"] * d.variance) \div 100,
                                   (base_metrics["throughput"] * 100) \div d.variance,
                                   (base_metrics["error_rate"] * d.factor) \div 100) >>
        ELSE <<>>

RECURSIVE CollectFrom(_, _, _)
\* for layer in layers: try: metrics.extend(...) except Exception: log
CollectFrom(layer_list, draws, i) ==
    IF i > Len(layer_list) THEN <<>>
    ELSE collect_layer_metrics(layer_list[i], draws[i]) \o CollectFrom(layer_list, draws, i + 1)

----------------------------------------------------------------------------
(* analyze_performance *)

\* metric.<field> > layer_config.get(key, default), which skips the check of
\* a key the entry lacks
Exceeds_SkipUnconfigured(value, layer_config, key, default) ==
    key \in DOMAIN layer_config /\ value > layer_config[key]

\* metric.<field> > layer_config.get(key, default)
Exceeds(value, layer_config, key, default) ==
    value > Get(layer_config, key, default)

When(cond, rec) == IF cond THEN <<rec>> ELSE <<>>

\* the body of the loop of analyze_performance for one metric
MetricRecommendations(metric, targets) ==
    LET layer_config == Get(targets, metric.layer, <<>>)
    IN  When(Exceeds(metric.cpu_usage, layer_config, "cpu_threshold", 80),
             OptimizationRecommendation(metric.component, metric.layer,
                                        "High CPU usage", 15, "medium", "high"))
        \o When(Exceeds(metric.memory_usage, layer_config, "memory_threshold", 80),
                OptimizationRecommendation(metric.component, metric.layer,
                                           "High memory usage", 20, "low", "high"))
        \o When(Exceeds(metric.response_time, layer_config, "response_time_threshold", 200),
                OptimizationRecommendation(metric.component, metric.layer,
                                           "High response time", 25, "medium", "medium"))
        \o When(metric.error_rate > 500,
                OptimizationRecommendation(metric.component, metric.layer,
                                           "High error rate", 30, "high", "high"))

RECURSIVE PerMetricRecommendations(_, _, _)
PerMetricRecommendations(list, targets, i) ==
    IF i > Len(list) THEN <<>>
    ELSE MetricRecommendations(list[i], targets)
             \o PerMetricRecommendations(list, targets, i + 1)

\* m.cpu_usage >= 0.8
IsHighCpu_AtLeast(m) == m.cpu_usage >= 80

\* m.cpu_usage > 0.8
IsHighCpu(m) == m.cpu_usage > 80

\* layer_response_times.get(layer, 0): the last metric of the layer counts
ResponseTimeOf(list, layer) ==
    LET at == {i \in DOMAIN list : list[i].layer = layer}
    IN  IF at = {} THEN 0
        ELSE list[CHOOSE i \in at : \A j \in at : j <= i].response_time

analyze_cross_layer_optimizations(list) ==
    When(Len(SelectSeq(list, IsHighCpu)) > 2,
         OptimizationRecommendation("cross_layer_scheduler", "system",
                                    "Resource contention across layers", 18, "high", "medium"))
    \o When(\E i \in DOMAIN OptLayerNames : ResponseTimeOf(list, OptLayerNames[i]) > 300,
            OptimizationRecommendation("data_pipeline", "system",
                                       "Data flow bottlenecks", 22, "medium", "medium"))

\* self.config["targets"] raises KeyError when the first metric is examined
AnalysisRaises(list) == list # <<>> /\ opt_config.targets = None

\* the list analyze_performance returns when it does not raise
Analysis(list) ==
    (IF list = <<>> THEN <<>> ELSE PerMetricRecommendations(list, opt_config.targets[1], 1))
        \o analyze_cross_layer_optimizations(list)

----------------------------------------------------------------------------
(* Operations of PerformanceOptimizer: the first half of                   *)
(* run_optimization_cycle                                                  *)

\* metrics = await self.collect_metrics(layers)
collect_metrics ==
    /\ opc = "start"
    /\ \E draws \in [DOMAIN target_layers -> Draw] :
          /\ metrics' = CollectFrom(target_layers, draws, 1)
          /\ metrics_history' = metrics_history \o metrics'
    /\ opc' = "collected"
    /\ UNCHANGED <<target_layers, opt_config, baselines, recommendations, plan, application_results, cycle_output>>
    /\ UNCHANGED validator_vars
    /\ UNCHANGED deployer_vars

\* recommendations = self.analyze_performance(metrics); an exception leaves
\* run_optimization_cycle, and main logs it and exits
analyze_performance ==
    /\ opc = "collected"
    /\ IF AnalysisRaises(metrics)
       THEN /\ opc' = "failed"
            /\ UNCHANGED recommendations
       ELSE /\ recommendations' = Analysis(metrics)
            /\ opc' = "analyzed"
    /\ UNCHANGED <<target_layers, opt_config, baselines, metrics, metrics_history, plan, application_results, cycle_output>>
    /\ UNCHANGED validator_vars
    /\ UNCHANGED deployer_vars

\* PerformanceOptimizer(config) as main builds it, about to run a cycle over
\* the target layers
InitAnalyze ==
    /\ NoValidator
    /\ NoDeployer
    /\ target_layers = TargetLayers(NumOptLayers)
    /\ opt_config \in LoadedConfigs(NumOptLayers)
    /\ baselines \in LoadedBaselines(NumOptLayers)
    /\ metrics = <<>>
    /\ metrics_history = <<>>
    /\ recommendations = <<>>
    /\ plan = None
    /\ application_results = None
    /\ cycle_output = None
    /\ opc = "start"

NextAnalyze ==
    \/ collect_metrics
    \/ analyze_performance

SpecAnalyze == InitAnalyze /\ [][NextAnalyze]_vars

----------------------------------------------------------------------------
(* generate_optimization_plan.  The plan's phases hold the recommendation  *)
(* objects themselves: a phase is the list of their positions in the list  *)
(* given to generate_optimization_plan.                                    *)

priority_order == ("critical" :> 0) @@ ("high" :> 1) @@ ("medium" :> 2) @@ ("low" :> 3)

\* key=lambda r: (priority_order.get(r.priority, 3), -r.expected_improvement)
SortKey(rec) == <<Get(priority_order, rec.priority, 3), 0 - rec.expected_improvement>>

\* an ordering that puts a recommendation before those of equal key
KeyLess_OrEqual(k1, k2) == k1[1] < k2[1] \/ (k1[1] = k2[1] /\ k1[2] <= k2[2])

\* tuple comparison k1 < k2
KeyLess(k1, k2) == k1[1] < k2[1] \/ (k1[1] = k2[1] /\ k1[2] < k2[2])

RECURSIVE InsertSorted(_, _, _)
\* x goes behind every position whose key is not greater than its own
InsertSorted(recs, s, x) ==
    IF s = <<>> THEN <<x>>
    ELSE IF KeyLess(SortKey(recs[x]), SortKey(recs[Head(s)])) THEN <<x>> \o s
         ELSE <<Head(s)>> \o InsertSorted(recs, Tail(s), x)

RECURSIVE SortedUpTo(_, _)
SortedUpTo(recs, n) ==
    IF n = 0 THEN <<>> ELSE InsertSorted(recs, SortedUpTo(recs, n - 1), n)

\* sorted(recommendations, key=...): the positions in sorted order
sorted_recommendations(recs) == SortedUpTo(recs, Len(recs))

\* an effort_mapping that sends high to long_term
effort_mapping_Shifted ==
    ("low" :> "immediate") @@ ("medium" :> "short_term")
        @@ ("high" :> "long_term") @@ ("complex" :> "long_term")

effort_mapping ==
    ("low" :> "immediate") @@ ("medium" :> "short_term")
        @@ ("high" :> "medium_term") @@ ("complex" :> "long_term")

PhaseNames == {"immediate", "short_term", "medium_term", "long_term"}

\* effort_mapping.get(effort) with no default
PhaseOf_NoDefault(effort) == Get(effort_mapping, effort, "none")

\* effort_mapping.get(rec.implementation_effort, "medium_term")
PhaseOf(effort) == Get(effort_mapping, effort, "medium_term")

\* group_by_implementation_phase over the positions in the given order
group_by_implementation_phase(recs, order) ==
    [phase \in PhaseNames |->
        SelectSeq(order, LAMBDA i : PhaseOf(recs[i].implementation_effort) = phase)]

\* rec.priority == "critical"
IsHighPriority_CriticalOnly(rec) == rec.priority = "critical"

\* rec.priority in ["critical", "high"]
IsHighPriority(rec) == rec.priority \in {"critical", "high"}

RECURSIVE SumImprovement(_, _)
SumImprovement(recs, n) ==
    IF n = 0 THEN 0 ELSE SumImprovement(recs, n - 1) + recs[n].expected_improvement

\* assess_risks with the limits compared by <
assess_risks_Strict(recs) ==
    LET high_priority_count == Len(SelectSeq(recs, IsHighPriority))
    IN  [high_priority_changes |-> high_priority_count,
         estimated_improvement |-> SumImprovement(recs, Len(recs)),
         risk_level |-> IF high_priority_count < 2 THEN "low"
                        ELSE IF high_priority_count < 5 THEN "medium" ELSE "high",
         monitoring_required |-> high_priority_count > 0]

assess_risks(recs) ==
    LET high_priority_count == Len(SelectSeq(recs, IsHighPriority))
    IN  [high_priority_changes |-> high_priority_count,
         estimated_improvement |-> SumImprovement(recs, Len(recs)),
         risk_level |-> IF high_priority_count <= 2 THEN "low"
                        ELSE IF high_priority_count <= 5 THEN "medium" ELSE "high",
         monitoring_required |-> high_priority_count > 0]

RECURSIVE RollbackFrom(_, _)
\* two steps for every critical or high recommendation, in the order of recs
RollbackFrom(recs, i) ==
    IF i > Len(recs) THEN <<>>
    ELSE (IF IsHighPriority(recs[i])
          THEN << <<"Rollback", recs[i].component>>, <<"Verify", recs[i].component>> >>
          ELSE <<>>) \o RollbackFrom(recs, i + 1)

generate_rollback_plan(recs) == RollbackFrom(recs, 1)

\* the dict generate_optimization_plan returns (the timestamp left out)
OptimizationPlan(recs) ==
    [total_recommendations |-> Len(recs),
     estimated_improvement |-> SumImprovement(recs, Len(recs)),
     phases |-> group_by_implementation_phase(recs, sorted_recommendations(recs)),
     risk_assessment |-> assess_risks(recs),
     rollback_plan |-> generate_rollback_plan(recs)]

----------------------------------------------------------------------------
(* apply_optimizations *)

\* what apply_single_optimization returns for each recommendation it is
\* called for; it is not called for the others, whose entry is left TRUE
ApplyOutcomes(recs) ==
    {success \in [DOMAIN recs -> BOOLEAN] :
        \A i \in DOMAIN recs : recs[i].status # "pending" => success[i]}

\* the loop body of apply_optimizations without the test of the status
ApplyOne_NoGuard(rec, success) ==
    [rec EXCEPT !.status = IF success THEN "applied" ELSE "failed"]

\* the loop body of apply_optimizations: success is what
\* apply_single_optimization returns
ApplyOne(rec, success) ==
    IF rec.status = "pending"
    THEN [rec EXCEPT !.status = IF success THEN "applied" ELSE "failed"]
    ELSE rec

RECURSIVE ApplyDetails(_, _, _)
ApplyDetails(recs, success, i) ==
    IF i > Len(recs) THEN <<>>
    ELSE (IF recs[i].status = "pending"
          THEN << <<IF success[i] THEN "Applied" ELSE "Failed", recs[i].component>> >>
          ELSE <<>>) \o ApplyDetails(recs, success, i + 1)

\* the dict apply_optimizations returns
ApplyResults(recs, success) ==
    LET called == {i \in DOMAIN recs : recs[i].status = "pending"}
    IN  [applied |-> Cardinality({i \in called : success[i]}),
         failed |-> Cardinality({i \in called : ~success[i]}),
         skipped |-> 0,
         details |-> ApplyDetails(recs, success, 1)]

----------------------------------------------------------------------------
(* Operations of PerformanceOptimizer: planning and applying *)

\* plan = self.generate_optimization_plan(recommendations)
generate_optimization_plan ==
    /\ opc = "analyzed"
    /\ plan' = <<OptimizationPlan(recommendations)>>
    /\ opc' = "planned"
    /\ UNCHANGED <<target_layers, opt_config, baselines, metrics, metrics_history, recommendations, application_results, cycle_output>>
    /\ UNCHANGED validator_vars
    /\ UNCHANGED deployer_vars

\* results = await self.apply_optimizations(recommendations), on the list
\* that was planned; it may be called again on the same list
apply_optimizations ==
    /\ opc \in {"planned", "applied"}
    /\ \E success \in ApplyOutcomes(recommendations) :
          /\ recommendations' =
                 [i \in DOMAIN recommendations |-> ApplyOne(recommendations[i], success[i])]
          /\ application_results' = <<ApplyResults(recommendations, success)>>
    /\ opc' = "applied"
    /\ UNCHANGED <<target_layers, opt_config, baselines, metrics, metrics_history, plan, cycle_output>>
    /\ UNCHANGED validator_vars
    /\ UNCHANGED deployer_vars

Priorities == {"critical", "high", "medium", "low"}
Improvements == {15, 30}
Efforts == {"low", "other"}

\* a batch of n pending recommendations, one per component
RecBatch(n, priority, improvement, effort) ==
    [i \in 1..n |->
        OptimizationRecommendation(OptLayerNames[i] \o "_service", OptLayerNames[i],
                                   "issue", improvement[i], effort[i], priority[i])]

\* a PerformanceOptimizer on the default configuration whose analysis has
\* returned a batch of at most max recommendations
InitBatch(max) ==
    /\ NoValidator
    /\ NoDeployer
    /\ target_layers = TargetLayers(NumOptLayers)
    /\ opt_config = get_default_config(NumOptLayers)
    /\ baselines = get_default_baselines(NumOptLayers)
    /\ metrics = <<>>
    /\ metrics_history = <<>>
    /\ \E n \in 0..max :
          \E priority \in [1..n -> Priorities], improvement \in [1..n -> Improvements],
             effort \in [1..n -> Efforts] :
             recommendations = RecBatch(n, priority, improvement, effort)
    /\ plan = None
    /\ application_results = None
    /\ cycle_output = None
    /\ opc = "analyzed"

\* generate_optimization_plan as a function of the batch
InitPlan == InitBatch(MaxRecs)

NextPlan == generate_optimization_plan

SpecPlan == InitPlan /\ [][NextPlan]_vars

\* planning a batch, then applying it, possibly more than once
InitApply == InitBatch(MaxApplied)

NextApply ==
    \/ generate_optimization_plan
    \/ apply_optimizations

SpecApply == InitApply /\ [][NextApply]_vars

----------------------------------------------------------------------------
(* run_optimization_cycle as main runs it: steps 1 to 3 are collect_metrics, *)
(* analyze_performance and generate_optimization_plan above                *)

Min(a, b) == IF a < b THEN a ELSE b

\* what generate_report puts into the report: the summary, the first ten
\* recommendations with their status, the phase sizes and the rollback plan
generate_report(list, recs, the_plan) ==
    [layers_analyzed |-> Cardinality({list[i].layer : i \in DOMAIN list}),
     total_recommendations |-> Len(recs),
     estimated_improvement |-> the_plan.estimated_improvement,
     risk_level |-> the_plan.risk_assessment.risk_level,
     recommendations |-> SubSeq(recs, 1, Min(10, Len(recs))),
     phase_sizes |-> [phase \in PhaseNames |-> Len(the_plan.phases[phase])],
     rollback_plan |-> the_plan.rollback_plan]

\* json.dump(plan, f) raises TypeError when a phase list holds an
\* OptimizationRecommendation object
SaveRaises(the_plan) == \E phase \in PhaseNames : the_plan.phases[phase] # <<>>

\* the report, the files written by save_results before it returns or
\* raises, and the dict the cycle returns
CycleOutput(list, recs, the_plan) ==
    [report |-> generate_report(list, recs, the_plan),
     saved_metrics |-> list,
     saved_recommendations |-> recs,
     saved_plan |-> IF SaveRaises(the_plan) THEN None ELSE <<the_plan>>,
     returned |-> IF SaveRaises(the_plan) THEN None
                  ELSE <<[metrics_count |-> Len(list),
                          recommendations_count |-> Len(recs),
                          estimated_improvement |-> the_plan.estimated_improvement]>>]

\* step 4 taken whatever auto_apply is
run_optimization_cycle_apply_Always ==
    /\ opc = "planned"
    /\ \E success \in ApplyOutcomes(recommendations) :
          /\ recommendations' =
                 [i \in DOMAIN recommendations |-> ApplyOne(recommendations[i], success[i])]
          /\ application_results' = <<ApplyResults(recommendations, success)>>
          /\ plan' = <<plan[1] @@ ("application_results" :> application_results'[1])>>
    /\ opc' = "applied"
    /\ UNCHANGED <<target_layers, opt_config, baselines, metrics, metrics_history, cycle_output>>
    /\ UNCHANGED validator_vars
    /\ UNCHANGED deployer_vars

\* step 4: if self.config.get("auto_apply", False):
\*             results = await self.apply_optimizations(recommendations)
\*             plan["application_results"] = results
run_optimization_cycle_apply ==
    /\ opc = "planned"
    /\ opt_config.auto_apply
    /\ \E success \in ApplyOutcomes(recommendations) :
          /\ recommendations' =
                 [i \in DOMAIN recommendations |-> ApplyOne(recommendations[i], success[i])]
          /\ application_results' = <<ApplyResults(recommendations, success)>>
          /\ plan' = <<plan[1] @@ ("application_results" :> application_results'[1])>>
    /\ opc' = "applied"
    /\ UNCHANGED <<target_layers, opt_config, baselines, metrics, metrics_history, cycle_output>>
    /\ UNCHANGED validator_vars
    /\ UNCHANGED deployer_vars

\* steps 5 and 6 and the return: generate_report, save_results; an exception
\* of save_results leaves the cycle, and main logs it and exits
run_optimization_cycle_finish ==
    /\ \/ opc = "applied"
       \/ opc = "planned" /\ ~opt_config.auto_apply
    /\ cycle_output' = <<CycleOutput(metrics, recommendations, plan[1])>>
    /\ opc' = IF SaveRaises(plan[1]) THEN "failed" ELSE "done"
    /\ UNCHANGED <<target_layers, opt_config, baselines, metrics, metrics_history,
                   recommendations, plan, application_results>>
    /\ UNCHANGED validator_vars
    /\ UNCHANGED deployer_vars

\* PerformanceOptimizer(config) with auto_apply set by main from --optimize,
\* about to run a cycle over the target layers
InitCycle ==
    /\ NoValidator
    /\ NoDeployer
    /\ target_layers = TargetLayers(CycleLayers)
    /\ \E config \in LoadedConfigs(CycleLayers), auto_apply \in BOOLEAN :
          opt_config = [config EXCEPT !.auto_apply = auto_apply]
    /\ baselines \in LoadedBaselines(CycleLayers)
    /\ metrics = <<>>
    /\ metrics_history = <<>>
    /\ recommendations = <<>>
    /\ plan = None
    /\ application_results = None
    /\ cycle_output = None
    /\ opc = "start"

NextCycle ==
    \/ collect_metrics
    \/ analyze_performance
    \/ generate_optimization_plan
    \/ run_optimization_cycle_apply
    \/ run_optimization_cycle_finish

SpecCycle == InitCycle /\ [][NextCycle]_vars

----------------------------------------------------------------------------
(* analyze_performance as a function of the collected metrics *)

CpuUsages == {70, 80, 90}
ResponseTimes == {100, 300, 350}

\* the metrics of the first n layers, one per layer
MetricBatch(n, cpu_usage, response_time) ==
    [i \in 1..n |->
        PerformanceMetrics(OptLayerNames[i] \o "_service", OptLayerNames[i],
                           cpu_usage[i], 60, response_time[i], 500, 100)]

\* a PerformanceOptimizer on the default configuration whose collect_metrics
\* has returned a batch of at most MaxMetrics metrics
InitCross ==
    /\ NoValidator
    /\ NoDeployer
    /\ \E n \in 0..MaxMetrics :
          /\ target_layers = TargetLayers(n)
          /\ \E cpu_usage \in [1..n -> CpuUsages], response_time \in [1..n -> ResponseTimes] :
                metrics = MetricBatch(n, cpu_usage, response_time)
    /\ opt_config = get_default_config(MaxMetrics)
    /\ baselines = get_default_baselines(MaxMetrics)
    /\ metrics_history = metrics
    /\ recommendations = <<>>
    /\ plan = None
    /\ application_results = None
    /\ cycle_output = None
    /\ opc = "collected"

NextCross == analyze_performance

SpecCross == InitCross /\ [][NextCross]_vars

----------------------------------------------------------------------------
(* generate_optimization_plan over batches of every effort class, and over *)
(* long batches that differ in priority only                               *)

\* a PerformanceOptimizer on the default configuration whose analysis has
\* returned a batch of at most max recommendations over the given values
InitRecs(max, priorities, improvements, efforts) ==
    /\ NoValidator
    /\ NoDeployer
    /\ target_layers = TargetLayers(NumOptLayers)
    /\ opt_config = get_default_config(NumOptLayers)
    /\ baselines = get_default_baselines(NumOptLayers)
    /\ metrics = <<>>
    /\ metrics_history = <<>>
    /\ \E n \in 0..max :
          \E priority \in [1..n -> priorities], improvement \in [1..n -> improvements],
             effort \in [1..n -> efforts] :
             recommendations = RecBatch(n, priority, improvement, effort)
    /\ plan = None
    /\ application_results = None
    /\ cycle_output = None
    /\ opc = "analyzed"

AllEfforts == {"low", "medium", "high", "complex", "other"}

InitPhase == InitRecs(MaxPhased, Priorities, Improvements, AllEfforts)

NextPhase == generate_optimization_plan

SpecPhase == InitPhase /\ [][NextPhase]_vars

InitRisk == InitRecs(MaxRisk, Priorities, {15}, {"low"})

NextRisk == generate_optimization_plan

SpecRisk == InitRisk /\ [][NextRisk]_vars

----------------------------------------------------------------------------
(* The deployer (tools/scripts/deploy_chimera.py): main builds its          *)
(* ChimeraDeployer before it can call deploy_complete_system                *)

Environments == {"development", "staging", "production"}

\* what parse_args returns: the environment and the five store_true flags
DeployArgs ==
    [environment : Environments, deploy : BOOLEAN, validate : BOOLEAN,
     optimize : BOOLEAN, check_status : BOOLEAN, generate_report : BOOLEAN]

\* the DeploymentConfig main builds from its arguments
DeploymentConfig(args) ==
    [environment |-> args.environment,
     enable_monitoring |-> TRUE,
     enable_optimization |-> args.optimize,
     validate_deployment |-> args.validate,
     generate_report |-> args.generate_report]

\* the fields of DeploymentStatus that have no default
RequiredStatusFields == {"environment", "status"}

\* DeploymentStatus(**kwargs): the dataclass constructor raises TypeError,
\* here None, when a field without a default is not given
DeploymentStatus(kwargs) ==
    IF RequiredStatusFields \subseteq DOMAIN kwargs
    THEN <<[environment |-> kwargs.environment,
            status |-> kwargs.status,
            layer_status |-> <<>>,
            service_status |-> <<>>,
            validation_results |-> <<>>,
            errors |-> <<>>]>>
    ELSE None

\* ChimeraDeployer(config), as main calls it outside its try block: the
\* status object is built from the environment alone, and an exception of
\* the constructor leaves main
ChimeraDeployer_init ==
    /\ dpc = "parsed"
    /\ LET config == DeploymentConfig(deploy_args[1])
           status == DeploymentStatus([environment |-> config.environment])
       IN  IF status = None
           THEN /\ deployer' = None
                /\ dpc' = "raised"
           ELSE /\ deployer' = <<[config |-> config, status |-> status[1],
                                  deployment_log |-> <<>>]>>
                /\ dpc' = "constructed"
    /\ UNCHANGED deploy_args
    /\ UNCHANGED validator_vars
    /\ UNCHANGED optimizer_vars

\* main has parsed its arguments
InitDeploy ==
    /\ NoValidator
    /\ NoOptimizer
    /\ deploy_args \in {<<a>> : a \in DeployArgs}
    /\ deployer = None
    /\ dpc = "parsed"

NextDeploy == ChimeraDeployer_init

SpecDeploy == InitDeploy /\ [][NextDeploy]_vars

----------------------------------------------------------------------------
(* Properties *)

\* the verdict last computed, and whether it was computed from the results
\* as they are now
Verdict == health[1]

Fresh == health # None /\ Resting

Indices(P(_)) == {i \in DOMAIN validation_results : P(validation_results[i])}

ScopesWithFindings == {validation_results[i].layer : i \in DOMAIN validation_results}

FindingsOf(scope) == {i \in DOMAIN validation_results : validation_results[i].layer = scope}

StatusOfScope(scope) ==
    IF scope \in DOMAIN Verdict.layer_status THEN Verdict.layer_status[scope] ELSE "absent"

NumDegraded == Cardinality({l \in DOMAIN Verdict.layer_status : Verdict.layer_status[l] = "degraded"})

SomeUnhealthy == \E l \in DOMAIN Verdict.layer_status : Verdict.layer_status[l] = "unhealthy"

\* C1: the overall status follows from the per-scope status map by strict
\* precedence: unhealthy if some scope is unhealthy; otherwise degraded if
\* more than 2 scopes are degraded; otherwise healthy.
C1_OverallByPrecedence ==
    Fresh =>
        /\ SomeUnhealthy => Verdict.overall_status = "unhealthy"
        /\ (~SomeUnhealthy /\ NumDegraded > 2) => Verdict.overall_status = "degraded"
        /\ (~SomeUnhealthy /\ NumDegraded <= 2) => Verdict.overall_status = "healthy"

\* three scopes degraded, none unhealthy: the second rule decides
C1_Witness ==
    /\ Fresh
    /\ ~SomeUnhealthy
    /\ NumDegraded = 3
    /\ Verdict.overall_status = "degraded"

ExpectedScopeStatus(scope) ==
    IF \E i \in FindingsOf(scope) : IsFailed(validation_results[i]) THEN "unhealthy"
    ELSE IF \E i \in FindingsOf(scope) : IsWarning(validation_results[i]) THEN "degraded"
    ELSE "healthy"

\* C2: every scope that has findings is classified unhealthy iff it has a
\* fail or error finding, degraded iff it has none and has a warning,
\* healthy otherwise; and a scope with an error finding makes the overall
\* verdict unhealthy.
C2_ScopeClassification ==
    Fresh =>
        /\ \A scope \in ScopesWithFindings : StatusOfScope(scope) = ExpectedScopeStatus(scope)
        /\ (\E i \in Indices(LAMBDA r : r.status = "error") : TRUE)
              => Verdict.overall_status = "unhealthy"

\* C3: a fail or error finding in any scope, the system scope included,
\* makes the overall status unhealthy.
C3_FailureMakesUnhealthy ==
    (Fresh /\ Indices(IsFailed) # {}) => Verdict.overall_status = "unhealthy"

\* C4: for an empty batch the verdict has score 1.0, overall status healthy
\* and no critical issue or warning.
C4_EmptyBatchVerdict ==
    (Fresh /\ Len(validation_results) = 0) =>
        /\ Verdict.performance_score.num = Verdict.performance_score.den
        /\ Verdict.overall_status = "healthy"
        /\ Verdict.critical_issues = <<>>
        /\ Verdict.warnings = <<>>

\* C5: for a non-empty batch the score is the number of pass findings over
\* the number of all findings, every scope counted; it lies in [0,1] and is
\* 1 exactly when every finding passes.
C5_ScoreIsPassRatio ==
    (Fresh /\ Len(validation_results) > 0) =>
        LET score == Verdict.performance_score
            passed == Cardinality(Indices(IsPass))
            total == Cardinality(DOMAIN validation_results)
        IN  /\ score.den > 0
            /\ score.num * total = passed * score.den
            /\ 0 <= score.num /\ score.num <= score.den
            /\ (score.num = score.den) <=> (passed = total)

\* a batch with a passing system-scope finding and a finding that did not
\* pass: the score is strictly between 0 and 1
C5_Witness ==
    /\ Fresh
    /\ \E i \in Indices(IsPass) : validation_results[i].layer = "system"
    /\ Indices(IsWarning) # {}
    /\ 0 < Verdict.performance_score.num
    /\ Verdict.performance_score.num < Verdict.performance_score.den

\* C6: critical_issues has one entry for every fail or error finding of the
\* batch and no other entry.
C6_CriticalIssuesComplete ==
    Fresh =>
        /\ Len(Verdict.critical_issues) = Cardinality(Indices(IsFailed))
        /\ \A k \in DOMAIN Verdict.critical_issues :
              \E i \in Indices(IsFailed) :
                 Verdict.critical_issues[k]
                    = IssueText(validation_results[i].layer, validation_results[i])

\* C7: warnings has one entry for every warning finding of the batch, also
\* for the warnings of a scope that has a fail or error finding.
C7_WarningsComplete ==
    Fresh => Len(Verdict.warnings) = Cardinality(Indices(IsWarning))

RECURSIVE IsSubsequence(_, _)
\* s is t with some elements left out, the order kept
IsSubsequence(s, t) ==
    IF Len(s) = 0 THEN TRUE
    ELSE IF Len(t) = 0 THEN FALSE
    ELSE IF Head(s) = Head(t) THEN IsSubsequence(Tail(s), Tail(t))
    ELSE IsSubsequence(s, Tail(t))

AllIssueTexts ==
    [i \in DOMAIN validation_results |->
        IssueText(validation_results[i].layer, validation_results[i])]

\* C8: the entries of critical_issues and of warnings are in the order in
\* which their findings were recorded, across scopes.
C8_InsertionOrder ==
    Fresh =>
        /\ IsSubsequence(Verdict.critical_issues, AllIssueTexts)
        /\ IsSubsequence(Verdict.warnings, AllIssueTexts)

\* C9: a configured scope without findings is in the per-scope status map,
\* as healthy.
C9_EmptyScopeHealthy ==
    Fresh =>
        \A i \in DOMAIN layers :
            FindingsOf(layers[i]) = {} => StatusOfScope(layers[i]) = "healthy"

\* C10: the verdict computed at the end of a run is the verdict of the
\* findings of that run alone.
C10_NoMemoryOfPriorRuns ==
    (pc = "verdict" /\ health # None) => Verdict = SystemHealth(layers, run_results)

Permuted(results, p) == [i \in DOMAIN results |-> results[p[i]]]

\* the verdicts of every rearrangement of the recorded results
PermutedVerdicts ==
    {SystemHealth(layers, Permuted(validation_results, p)) :
        p \in Permutations(DOMAIN validation_results)}

Count(s, x) == Cardinality({i \in DOMAIN s : s[i] = x})

SameEntries(s, t) ==
    /\ Len(s) = Len(t)
    /\ \A i \in DOMAIN s : Count(s, s[i]) = Count(t, s[i])

\* C11 as stated: every rearrangement of the batch gives the same overall
\* status, per-scope map, score, critical_issues and warnings.
C11_OrderIndependent ==
    Fresh => \A v \in PermutedVerdicts : v = Verdict

\* C11, amended: every rearrangement of the batch gives the same overall
\* status, per-scope map and score, and the same entries in critical_issues
\* and in warnings, each as often, though not always in the same order.
C11_OrderIndependentUpToListOrder ==
    Fresh =>
        \A v \in PermutedVerdicts :
            /\ v.overall_status = Verdict.overall_status
            /\ v.layer_status = Verdict.layer_status
            /\ v.performance_score = Verdict.performance_score
            /\ SameEntries(v.critical_issues, Verdict.critical_issues)
            /\ SameEntries(v.warnings, Verdict.warnings)

\* a batch one rearrangement of which lists the critical issues in another order
C11_Witness ==
    /\ Fresh
    /\ \E v \in PermutedVerdicts : v.critical_issues # Verdict.critical_issues

\* C12: a second assess_system_health with no validation step in between
\* returns the verdict the first returned, and the call leaves the recorded
\* results as they are.
C12_Idempotent ==
    [][(Fresh /\ assess_system_health)
          => (health' = health /\ validation_results' = validation_results)]_vars

\* assess_system_health has been called twice on the same non-empty results
C12_Witness ==
    /\ assess_calls = 2
    /\ health # None
    /\ Len(validation_results) > 0

----------------------------------------------------------------------------
(* Properties of collect_metrics and analyze_performance *)

Analyzed == opc = "analyzed"

\* the threshold checks of analyze_performance that read the configuration:
\* field of the metric, key of the layer's entry, default, issue reported
ThresholdChecks ==
    { <<"cpu_usage", "cpu_threshold", 80, "High CPU usage">>,
      <<"memory_usage", "memory_threshold", 80, "High memory usage">>,
      <<"response_time", "response_time_threshold", 200, "High response time">> }

\* the recommendations hold one for this metric and this issue
HasRec(m, issue) ==
    \E i \in DOMAIN recommendations :
        /\ recommendations[i].component = m.component
        /\ recommendations[i].layer = m.layer
        /\ recommendations[i].issue = issue

LayerConfigOf(m) == Get(opt_config.targets[1], m.layer, <<>>)

\* the layer has a metric or a recommendation in the result of the analysis
Represented(layer) ==
    \/ \E i \in DOMAIN metrics : metrics[i].layer = layer
    \/ \E i \in DOMAIN recommendations : recommendations[i].layer = layer

\* C13: a layer whose collection failed is not dropped: after the analysis
\* every target layer is represented in the result, by its metrics or by a
\* finding for its scope.
C13_CollectionFailureReported ==
    Analyzed => \A i \in DOMAIN target_layers : Represented(target_layers[i])

\* C14: a value exactly equal to its threshold is a violation: every metric
\* whose value is at or above the threshold in force has the recommendation
\* of that check.
C14_BoundaryIsViolation ==
    Analyzed =>
        \A i \in DOMAIN metrics :
            /\ \A c \in ThresholdChecks :
                  metrics[i][c[1]] >= Get(LayerConfigOf(metrics[i]), c[2], c[3])
                      => HasRec(metrics[i], c[4])
            /\ metrics[i].error_rate >= 500 => HasRec(metrics[i], "High error rate")

\* C15 as stated: a metric whose layer has no threshold configured for a
\* check gets no recommendation of that check.
C15_UnconfiguredSkipped ==
    Analyzed =>
        \A i \in DOMAIN metrics : \A c \in ThresholdChecks :
            c[2] \notin DOMAIN LayerConfigOf(metrics[i]) => ~HasRec(metrics[i], c[4])

\* C15, amended: a metric whose layer has no threshold configured for a
\* check is compared with the default of that check (0.8 for cpu and memory,
\* 2.0 s for the response time) and gets the recommendation exactly when it
\* is above the default.
C15_UnconfiguredUsesDefault ==
    Analyzed =>
        \A i \in DOMAIN metrics : \A c \in ThresholdChecks :
            c[2] \notin DOMAIN LayerConfigOf(metrics[i])
                => (HasRec(metrics[i], c[4]) <=> metrics[i][c[1]] > c[3])

\* an analysis that recommended on a check whose threshold is not configured
C15_Witness ==
    /\ Analyzed
    /\ \E i \in DOMAIN metrics : \E c \in ThresholdChecks :
          /\ c[2] \notin DOMAIN LayerConfigOf(metrics[i])
          /\ HasRec(metrics[i], c[4])

\* C16: no loaded configuration, whichever entries it lacks, makes the
\* evaluation fail.
C16_MissingConfigTolerated == opc # "failed"

----------------------------------------------------------------------------
(* Properties of generate_optimization_plan and apply_optimizations *)

Planned == opc \in {"planned", "applied"} /\ plan # None

ThePlan == plan[1]

RankOf(priority) ==
    CASE priority = "critical" -> 0
      [] priority = "high" -> 1
      [] priority = "medium" -> 2
      [] OTHER -> 3

\* recommendation a comes before recommendation b by rank, then by the
\* higher expected improvement
Before(a, b) ==
    \/ RankOf(a.priority) < RankOf(b.priority)
    \/ /\ RankOf(a.priority) = RankOf(b.priority)
       /\ a.expected_improvement > b.expected_improvement

SameKey(a, b) ==
    /\ RankOf(a.priority) = RankOf(b.priority)
    /\ a.expected_improvement = b.expected_improvement

\* the list of positions is in key order and keeps equal keys in their
\* order of discovery
InStableKeyOrder(order) ==
    \A j, k \in DOMAIN order :
        j < k =>
            LET a == recommendations[order[j]]
                b == recommendations[order[k]]
            IN  /\ ~Before(b, a)
                /\ SameKey(a, b) => order[j] < order[k]

IsArrangement(order, n) ==
    /\ Len(order) = n
    /\ \A i \in 1..n : \E j \in DOMAIN order : order[j] = i

\* C17: the sorted sequence holds every recommendation once, in the order of
\* (rank, -expected_improvement) with equal keys in discovery order, and so
\* does every phase list of the plan.
C17_StableSort ==
    Planned =>
        /\ IsArrangement(sorted_recommendations(recommendations), Len(recommendations))
        /\ InStableKeyOrder(sorted_recommendations(recommendations))
        /\ \A phase \in PhaseNames : InStableKeyOrder(ThePlan.phases[phase])

\* a plan in one phase of which two recommendations of equal key lie behind
\* one that was discovered after them
C17_Witness ==
    /\ Planned
    /\ \E phase \in PhaseNames :
          LET order == ThePlan.phases[phase]
          IN  \E j, k \in DOMAIN order :
                 /\ j < k
                 /\ SameKey(recommendations[order[j]], recommendations[order[k]])
                 /\ \E m \in DOMAIN order : m < j /\ order[m] > order[k]

\* the places of the plan's phases where the recommendation at position i lies
PlacesOf(i) ==
    {pl \in PhaseNames \X (1..Len(recommendations)) :
        /\ pl[2] \in DOMAIN ThePlan.phases[pl[1]]
        /\ ThePlan.phases[pl[1]][pl[2]] = i}

RECURSIVE SumOver(_, _)
SumOver(S, f) ==
    IF S = {} THEN 0
    ELSE LET x == CHOOSE y \in S : TRUE IN f[x] + SumOver(S \ {x}, f)

\* C18: the phases partition the batch: every recommendation lies in exactly
\* one place of the phases, and the phase sizes add up to the batch size.
C18_PhasesPartition ==
    Planned =>
        /\ \A i \in DOMAIN recommendations : Cardinality(PlacesOf(i)) = 1
        /\ SumOver(PhaseNames, [phase \in PhaseNames |-> Len(ThePlan.phases[phase])])
               = Len(recommendations)

\* a plan of several recommendations, one of an effort class outside the mapping
C18_Witness ==
    /\ Planned
    /\ Len(recommendations) >= 2
    /\ \E i \in DOMAIN recommendations :
          /\ recommendations[i].implementation_effort \notin DOMAIN effort_mapping
          /\ \E k \in DOMAIN ThePlan.phases["medium_term"] :
                ThePlan.phases["medium_term"][k] = i

\* the components of the critical and high recommendations, in sorted order
SortedHighComponents ==
    LET high == SelectSeq(sorted_recommendations(recommendations),
                          LAMBDA i : IsHighPriority(recommendations[i]))
    IN  [j \in DOMAIN high |-> recommendations[high[j]].component]

\* the components named by the rollback steps of the plan, pair by pair
RollbackComponents ==
    [j \in 1..(Len(ThePlan.rollback_plan) \div 2) |-> ThePlan.rollback_plan[2 * j - 1][2]]

\* C19: the rollback steps name the critical and high recommendations in
\* the planner's sorted order.
C19_RollbackInSortedOrder ==
    Planned => RollbackComponents = SortedHighComponents

\* C20: a status changes only in an apply_optimizations step, only from
\* pending, and only to applied or failed; an apply_optimizations step taken
\* after an earlier one applies nothing and changes no status.
C20_StatusOnlyByApply ==
    [][/\ DOMAIN recommendations' = DOMAIN recommendations
       /\ \A i \in DOMAIN recommendations :
             recommendations'[i].status # recommendations[i].status
                 => /\ apply_optimizations
                    /\ recommendations[i].status = "pending"
                    /\ recommendations'[i].status \in {"applied", "failed"}
       /\ (opc = "applied" /\ apply_optimizations)
             => /\ recommendations' = recommendations
                /\ application_results'[1].applied = 0
                /\ application_results'[1].failed = 0
                /\ application_results'[1].details = <<>>]_vars

\* apply_optimizations has been called a second time on a non-empty batch
C20_Witness ==
    /\ opc = "applied"
    /\ Len(recommendations) > 0
    /\ application_results[1].applied + application_results[1].failed = 0

----------------------------------------------------------------------------
(* Properties of run_optimization_cycle *)

AllPending(recs) == \A i \in DOMAIN recs : recs[i].status = "pending"

\* C21: in a cycle with auto_apply false no apply call is made, and every
\* recommendation, in the optimizer, in the report and in the saved file,
\* has status pending.
C21_NoApplyUnlessAsked ==
    ~opt_config.auto_apply =>
        /\ application_results = None
        /\ AllPending(recommendations)
        /\ cycle_output # None =>
              /\ AllPending(cycle_output[1].report.recommendations)
              /\ AllPending(cycle_output[1].saved_recommendations)

\* a cycle with auto_apply false that has reported and saved recommendations
C21_Witness ==
    /\ ~opt_config.auto_apply
    /\ cycle_output # None
    /\ Len(cycle_output[1].saved_recommendations) > 0
    /\ Len(cycle_output[1].report.recommendations) > 0

\* the positions of the recommendations held in the phases of a plan
HeldIn(the_plan) ==
    UNION {SeqToSet(the_plan.phases[phase]) : phase \in PhaseNames}

\* C22: once the plan exists, no step changes its set of keys, its phase
\* lists, or a field of a recommendation held in its phases.
C22_PlanImmutable ==
    [][plan # None =>
          /\ plan' # None
          /\ DOMAIN plan'[1] = DOMAIN plan[1]
          /\ plan'[1].phases = plan[1].phases
          /\ \A i \in HeldIn(plan[1]) : recommendations'[i] = recommendations[i]]_vars

----------------------------------------------------------------------------
(* Properties of analyze_cross_layer_optimizations *)

\* how many recommendations of the analysis have this issue
IssueCount(issue) ==
    Cardinality({i \in DOMAIN recommendations : recommendations[i].issue = issue})

NumHighCpu == Cardinality({i \in DOMAIN metrics : metrics[i].cpu_usage > 80})

NumSlow == Cardinality({i \in DOMAIN metrics : metrics[i].response_time > 300})

CrossIssues == {"Resource contention across layers", "Data flow bottlenecks"}

\* C23: the contention recommendation is there once when more than two
\* metrics have a cpu usage above 0.8 and not at all otherwise; the
\* recommendations of the cross-layer kinds, and no others, are scoped to
\* system, and there is at most one of each kind.
C23_ContentionOnce ==
    Analyzed =>
        /\ IssueCount("Resource contention across layers") = (IF NumHighCpu > 2 THEN 1 ELSE 0)
        /\ IssueCount("Data flow bottlenecks") <= 1
        /\ \A i \in DOMAIN recommendations :
              recommendations[i].layer = "system" <=> recommendations[i].issue \in CrossIssues

\* an analysis of three metrics above 0.8 that holds the contention
\* recommendation
C23_Witness ==
    /\ Analyzed
    /\ NumHighCpu > 2
    /\ IssueCount("Resource contention across layers") = 1

\* C24: a batch in which exactly one metric's response time is above the
\* bottleneck threshold gets no bottleneck recommendation.
C24_BottleneckNeedsSeveral ==
    (Analyzed /\ NumSlow = 1) => IssueCount("Data flow bottlenecks") = 0

----------------------------------------------------------------------------
(* Properties of the plan's rollback steps, phases and risk level *)

\* the positions of the recommendations of priority critical or high
CriticalOrHigh ==
    {i \in DOMAIN recommendations : recommendations[i].priority \in {"critical", "high"}}

\* C25: the rollback steps are one Rollback/Verify pair per recommendation
\* of priority critical or high, the two lines of a pair next to each other
\* and naming the same component, and nothing else.
C25_RollbackPairs ==
    Planned =>
        LET steps == ThePlan.rollback_plan
        IN  /\ Len(steps) = 2 * Cardinality(CriticalOrHigh)
            /\ \A j \in 1..Cardinality(CriticalOrHigh) :
                  /\ steps[2 * j - 1][1] = "Rollback"
                  /\ steps[2 * j][1] = "Verify"
                  /\ steps[2 * j][2] = steps[2 * j - 1][2]
                  /\ \E i \in CriticalOrHigh : recommendations[i].component = steps[2 * j][2]
            /\ \A i \in CriticalOrHigh :
                  Cardinality({k \in DOMAIN steps :
                                  steps[k][2] = recommendations[i].component}) = 2

\* a plan with rollback steps for a batch that also holds a recommendation
\* of priority medium or low
C25_Witness ==
    /\ Planned
    /\ Cardinality(CriticalOrHigh) >= 2
    /\ Cardinality(CriticalOrHigh) < Len(recommendations)

\* the phase the claim fixes for the four effort classes
ExpectedPhase(effort) ==
    CASE effort = "low" -> "immediate"
      [] effort = "medium" -> "short_term"
      [] effort = "high" -> "medium_term"
      [] effort = "complex" -> "long_term"

\* C26: a recommendation of effort low, medium, high or complex lies in
\* the phase immediate, short_term, medium_term or long_term respectively
\* and in no other, whatever its priority, improvement and position.
C26_PhaseByEffort ==
    Planned =>
        \A i \in DOMAIN recommendations :
            recommendations[i].implementation_effort \in {"low", "medium", "high", "complex"}
                => \A phase \in PhaseNames :
                      (i \in SeqToSet(ThePlan.phases[phase]))
                          <=> phase = ExpectedPhase(recommendations[i].implementation_effort)

\* a plan with two recommendations of effort high, of different priority
\* and improvement, both in medium_term
C26_Witness ==
    /\ Planned
    /\ \E i, j \in DOMAIN recommendations :
          /\ i < j
          /\ recommendations[i].implementation_effort = "high"
          /\ recommendations[j].implementation_effort = "high"
          /\ recommendations[i].priority # recommendations[j].priority
          /\ recommendations[i].expected_improvement # recommendations[j].expected_improvement
          /\ {i, j} \subseteq SeqToSet(ThePlan.phases["medium_term"])

\* C27: the risk level is low for at most 2 recommendations of priority
\* critical or high, medium for 3 to 5, high for 6 or more.
C27_RiskLevel ==
    Planned =>
        ThePlan.risk_assessment.risk_level =
            (IF Cardinality(CriticalOrHigh) <= 2 THEN "low"
             ELSE IF Cardinality(CriticalOrHigh) <= 5 THEN "medium" ELSE "high")

\* a plan of six recommendations of priority critical or high, of risk high
C27_Witness ==
    /\ Planned
    /\ Cardinality(CriticalOrHigh) >= 6
    /\ ThePlan.risk_assessment.risk_level = "high"

----------------------------------------------------------------------------
(* Properties of the response-time check and of the stored verdict *)

\* the first full run of the validator has ended, and every result of it
\* that is not the response-time check's is a pass
FullRunProbesPassed ==
    /\ pc = "verdict"
    /\ system_health # None
    /\ Len(validation_results) = FullRunSize
    /\ \A i \in DOMAIN validation_results :
          \/ validation_results[i].status = "pass"
          \/ validation_results[i] = test_response_time(validation_results[i].layer)

\* C28: a full validation run in which every probe succeeds within its
\* thresholds ends with overall status healthy, the response-time check
\* yielding an error only when its probe fails.
C28_PassingRunIsHealthy ==
    FullRunProbesPassed => system_health[1].overall_status = "healthy"

====
